---- MODULE Spec2Model ----
(***************************************************************************)
(* Model of video-chunker/chunker.py: the cut-point planners of            *)
(* VideoChunker (fixed, silence, scene, smart) and the thread-pool chunk   *)
(* executor of process_single_video.                                       *)
(*                                                                         *)
(* Time is counted in ticks of half a second, so that the midpoint of a    *)
(* silence interval whose bounds are whole seconds is an exact integer.    *)
(***************************************************************************)
EXTENDS Integers, Sequences, FiniteSets, Bags, TLC

VARIABLES
    target_duration,  \* self.target_duration                     (ticks)
    strategy,         \* self.strategy
    max_workers,      \* self.max_workers
    vertical_format,  \* self.vertical_format
    re_encode,        \* self.re_encode
    output_resolution,\* self.output_resolution as <<width, height>>
    file,             \* index of the video file being processed (process_videos loop)
    pc,               \* position of the main thread
    video_file,       \* the file process_single_video was called with
    duration,         \* duration of the current file as probed   (ticks)
    input_size,       \* <<width, height>> of the current file as probed
    backend_calls,    \* media-backend scans/probes issued for the current file, in order
    scenes_loose,     \* result of detect_scene_changes(threshold=0.3) in the smart chain
    scene_times,      \* result of detect_scene_changes() inside find_cut_points_scene
    silence_periods,  \* result of detect_silence_fast()
    algo,             \* the planner loop that builds cut_points
    cut_points,       \* the list being built / returned
    current_time,     \* loop variable (current / current_time)
    cut_origin,       \* per cut point: how it was chosen, from which event, after which cut
    futures,          \* per submitted chunk: its spec and its state
    next_i,           \* loop index i of the submit loop
    work_queue,       \* the executor's queue of chunks not yet picked up
    num_threads,      \* worker threads the executor has spawned
    failing,          \* the chunks on which the backend exits non-zero
    yielded,          \* futures as_completed has handed out
    results,          \* outcomes observed by the as_completed loop (a bag)
    stderr_lines,     \* result.stderr.split('\n') in detect_silence_fast
    line_no,          \* the line the for loop of detect_silence_fast is at
    current_start,    \* current_start of detect_silence_fast
    parsed_periods,   \* silence_periods of detect_silence_fast, while it is built
    start_line,       \* the line current_start was read from
    pairing           \* per parsed interval: <<line of its start, line of its end>>

vars == <<target_duration, strategy, max_workers, vertical_format, re_encode,
          output_resolution, file, pc, video_file, duration, input_size, backend_calls,
          scenes_loose, scene_times, silence_periods, algo, cut_points, current_time,
          cut_origin, futures, next_i, work_queue, num_threads, failing, yielded,
          results, stderr_lines, line_no, current_start, parsed_periods, start_line,
          pairing>>

config_vars == <<target_duration, strategy, max_workers, vertical_format, re_encode,
                 output_resolution>>
\* what process_single_video holds about the file at hand
probe_vars == <<video_file, duration, input_size>>
detect_vars == <<scenes_loose, scene_times, silence_periods>>
plan_vars == <<algo, cut_points, current_time, cut_origin>>
exec_vars == <<futures, next_i, work_queue, num_threads, failing, yielded, results>>
parse_vars == <<stderr_lines, line_no, current_start, parsed_periods, start_line, pairing>>

----------------------------------------------------------------------------
(* Bounds of the model *)

\* number of video files in the input directory
NumFiles == 2
\* most silence intervals the backend reports for one file
MaxSilence == 2
\* most scene changes the backend reports for one file
MaxScenes == 3
\* a file is at most this many target durations long
MaxSegments == 4
\* a planner loop is followed for at most this many cut points
MaxCuts == 6

\* target durations tried (ticks): 15 s (below the 20 s window) and 120 s
Targets == {30, 240}
Strategies == {"fixed", "silence", "scene", "smart"}
Workers == {1, 2}
\* a target duration the command line accepts although no chunk can have it
BadTargets == {0}
\* file durations tried (ticks): 0 s, 10 s, 50 s, 110 s, 300 s
Durations == {0, 20, 100, 220, 600}
\* silence intervals <<start, end, duration>> the backend may report (ticks)
SilencePool == { <<0, 4, 4>>, <<20, 24, 4>>, <<204, 208, 4>>, <<230, 232, 2>>,
                 <<278, 286, 8>>, <<470, 474, 4>> }
\* scene-change timestamps the backend may report (ticks)
ScenePool == {0, 24, 36, 230, 470}
\* --vertical
Formats == {"blur", "crop", "pad", "none"}
\* --resolution, as <<width, height>>
Resolutions == { <<1080, 1920>>, <<720, 1280>> }
\* frame sizes <<width, height>> the probe may report: landscape full HD, and a
\* source narrower than 9:16
InputSizes == { <<1920, 1080>>, <<480, 1080>> }

\* the extensions process_videos globs for, in the order it lists the files
VideoExtensions == <<"mp4", "mkv", "avi", "mov">>

\* A file name by its parts: the text before the season/episode tag, the digits
\* of the tag as written, and the extension.
VideoFile(show, season, episode, ext) ==
    [show |-> show, season |-> season, episode |-> episode, ext |-> ext]

\* the names tried for the file at position f of the listing: "Show.S1E1.<ext>"
\* and "Other.S01E02.<ext>" (two files of a listing differ at least in extension)
VideoFilesAt(f) ==
    { VideoFile("Show", <<1>>, <<1>>, VideoExtensions[f]),
      VideoFile("Other", <<0, 1>>, <<0, 2>>, VideoExtensions[f]) }

NoVideoFile == VideoFile("", <<>>, <<>>, "")

Config(T, s, w, f, r, res) ==
    [target_duration |-> T, strategy |-> s, max_workers |-> w,
     vertical_format |-> f, re_encode |-> r, output_resolution |-> res]

\* The configurations followed: every planner option with the constructor's
\* default format options, every format option with the fixed strategy, and
\* every planner option with a target that is not positive.
Configs ==
    { Config(T, s, w, "blur", FALSE, <<1080, 1920>>) :
          T \in Targets, s \in Strategies, w \in Workers }
    \cup
    { Config(240, "fixed", 2, f, r, res) :
          f \in Formats, r \in BOOLEAN, res \in Resolutions }
    \cup
    { Config(T, s, 1, "blur", FALSE, <<1080, 1920>>) :
          T \in BadTargets, s \in Strategies }

----------------------------------------------------------------------------
(* Helpers *)

Min(a, b) == IF a < b THEN a ELSE b

Abs(x) == IF x < 0 THEN -x ELSE x

Last(s) == s[Len(s)]

RECURSIVE SortedSeq(_)
\* the elements of a set of numbers in increasing order
SortedSeq(S) ==
    IF S = {} THEN <<>>
    ELSE LET m == CHOOSE x \in S : \A y \in S : x <= y
         IN  <<m>> \o SortedSeq(S \ {m})

RECURSIVE SortedByStart(_)
\* the intervals of a set in increasing order of start
SortedByStart(S) ==
    IF S = {} THEN <<>>
    ELSE LET m == CHOOSE x \in S : \A y \in S : x[1] <= y[1]
         IN  <<m>> \o SortedByStart(S \ {m})

Range(s) == { s[i] : i \in 1..Len(s) }

\* what detect_scene_changes can return for a file of duration D: a sorted list
\* of timestamps of the file
SceneLists(D) ==
    { SortedSeq(S) : S \in { X \in SUBSET { m \in ScenePool : m <= D } :
                                 Cardinality(X) <= MaxScenes } }

\* what detect_silence_fast can return for a file of duration D: intervals that
\* start in the file, in the order the backend reports them
SilenceLists(D) ==
    { SortedByStart(S) : S \in { X \in SUBSET { p \in SilencePool : p[1] <= D } :
                                    Cardinality(X) <= MaxSilence } }

----------------------------------------------------------------------------
(* The planner's arithmetic *)

\* the +/- 20 s of search_window_start / search_window_end, in ticks
SearchWindow == 40

search_window_start(T) == T - SearchWindow

search_window_end(T) == T + SearchWindow

\* search_start = current_time + self.search_window_start
SearchStart(cur, T) == cur + search_window_start(T)

SearchEndNoWindow(cur, T, D) == D

\* search_end = min(current_time + self.search_window_end, duration)
SearchEnd(cur, T, D) == Min(cur + search_window_end(T), D)

\* best_silence = None
None == <<>>

\* best_scene = None
NoScene == -1

LongerLastWins(dur, best) == best = None \/ dur >= best[3]

\* if best_silence is None or dur > best_silence[2]
LongerThanBest(dur, best) == best = None \/ dur > best[3]

RECURSIVE BestSilenceScan(_, _, _, _, _)
\* the for loop over silence_periods, from index i on
BestSilenceScan(periods, i, best, lo, hi) ==
    IF i > Len(periods) THEN best
    ELSE LET p == periods[i]
         IN  IF lo <= p[1] /\ p[1] <= hi /\ LongerThanBest(p[3], best)
             THEN BestSilenceScan(periods, i + 1, p, lo, hi)
             ELSE BestSilenceScan(periods, i + 1, best, lo, hi)

BestSilence(periods, cur, T, D) ==
    BestSilenceScan(periods, 1, None, SearchStart(cur, T), SearchEnd(cur, T, D))

\* best_silence[0] + (best_silence[1] - best_silence[0]) / 2
Midpoint(p) == p[1] + (p[2] - p[1]) \div 2

\* cut_point = min(current_time + self.target_duration, duration)
FallbackCutWindow(cur, T, D) == Min(cur + T + SearchWindow, D)

\* cut_point = min(current_time + self.target_duration, duration)
FallbackCut(cur, T, D) == Min(cur + T, D)

SilenceCutPoint(periods, cur, T, D) ==
    LET best == BestSilence(periods, cur, T, D)
    IN  IF best # None THEN Midpoint(best) ELSE FallbackCut(cur, T, D)

RECURSIVE BestSceneScan(_, _, _, _, _, _)
\* the for loop over scene_times, from index i on; best = NoScene stands for
\* best_distance = inf
BestSceneScan(marks, i, best, lo, hi, target) ==
    IF i > Len(marks) THEN best
    ELSE LET m == marks[i]
         IN  IF lo <= m /\ m <= hi
                /\ (best = NoScene \/ Abs(m - target) < Abs(best - target))
             THEN BestSceneScan(marks, i + 1, m, lo, hi, target)
             ELSE BestSceneScan(marks, i + 1, best, lo, hi, target)

BestScene(marks, cur, T, D) ==
    BestSceneScan(marks, 1, NoScene, SearchStart(cur, T), SearchEnd(cur, T, D), cur + T)

\* Python truth value of best_scene: None and 0.0 are both false
Truthy(best) == best # NoScene /\ best # 0

SceneCutPoint(marks, cur, T, D) ==
    LET best == BestScene(marks, cur, T, D)
    IN  IF Truthy(best) THEN best ELSE FallbackCut(cur, T, D)

AcceptNoLower(cut, cur, D) == cut < D

AcceptNoUpper(cut, cur, D) == cut > cur

\* if cut_point > current_time and cut_point < duration
Accept(cut, cur, D) == cut > cur /\ cut < D

FixedContinuesInclusive(cur, D) == cur <= D

\* while current < duration
FixedContinues(cur, D) == cur < D

FixedAdvanceWindow(cur, T) == cur + search_window_end(T)

\* current += self.target_duration
FixedAdvance(cur, T) == cur + T

RECURSIVE FixedFrom(_, _, _)
FixedFrom(cur, T, D) ==
    IF FixedContinues(cur, D) THEN <<cur>> \o FixedFrom(FixedAdvance(cur, T), T, D) ELSE <<>>

\* find_cut_points_fixed as a function of its inputs
FindCutPointsFixed(T, D) == FixedFrom(0, T, D)

RECURSIVE SilenceFrom(_, _, _, _, _)
SilenceFrom(periods, cuts, cur, T, D) ==
    IF cur < D /\ Accept(SilenceCutPoint(periods, cur, T, D), cur, D)
    THEN LET c == SilenceCutPoint(periods, cur, T, D)
         IN  SilenceFrom(periods, Append(cuts, c), c, T, D)
    ELSE cuts

\* find_cut_points_silence as a function of its inputs
FindCutPointsSilence(periods, T, D) == SilenceFrom(periods, <<0>>, 0, T, D)

RECURSIVE SceneFrom(_, _, _, _, _)
SceneFrom(marks, cuts, cur, T, D) ==
    IF cur < D /\ Accept(SceneCutPoint(marks, cur, T, D), cur, D)
    THEN LET c == SceneCutPoint(marks, cur, T, D)
         IN  SceneFrom(marks, Append(cuts, c), c, T, D)
    ELSE cuts

\* find_cut_points_scene as a function of its inputs
FindCutPointsScene(marks, T, D) ==
    IF marks = <<>> THEN FindCutPointsFixed(T, D) ELSE SceneFrom(marks, <<0>>, 0, T, D)

----------------------------------------------------------------------------
(* State after construction *)

NoPlan ==
    /\ algo = "none"
    /\ cut_points = <<>>
    /\ current_time = 0
    /\ cut_origin = <<>>

NoExecutor ==
    /\ futures = <<>>
    /\ next_i = 0
    /\ work_queue = <<>>
    /\ num_threads = 0
    /\ failing = {}
    /\ yielded = {}
    /\ results = EmptyBag

\* no file has been looked at
NoFileYet ==
    /\ file = 1
    /\ pc = "next_file"
    /\ video_file = NoVideoFile
    /\ duration = 0
    /\ input_size = <<0, 0>>
    /\ backend_calls = <<>>
    /\ scenes_loose = <<>>
    /\ scene_times = <<>>
    /\ silence_periods = <<>>
    /\ NoPlan
    /\ NoExecutor

\* current_start = None
NoStart == -1

\* no output of the silence filter is being parsed
NoParse ==
    /\ stderr_lines = <<>>
    /\ line_no = 1
    /\ current_start = NoStart
    /\ parsed_periods = <<>>
    /\ start_line = 0
    /\ pairing = <<>>

Init ==
    /\ \E c \in Configs :
         /\ target_duration = c.target_duration
         /\ strategy = c.strategy
         /\ max_workers = c.max_workers
         /\ vertical_format = c.vertical_format
         /\ re_encode = c.re_encode
         /\ output_resolution = c.output_resolution
    /\ NoParse
    /\ NoFileYet

----------------------------------------------------------------------------
(* process_videos / process_single_video / find_cut_points *)

Origin(kind, prev, ev) == [kind |-> kind, prev |-> prev, ev |-> ev]

\* cut_points = [] ; current = 0   (find_cut_points_fixed)
EnterFixed ==
    /\ algo' = "fixed"
    /\ cut_points' = <<>>
    /\ current_time' = 0
    /\ cut_origin' = <<>>
    /\ pc' = "fixed_loop"

\* cut_points = [0] ; current_time = 0   (find_cut_points_silence / _scene)
EnterEventLoop(name) ==
    /\ algo' = name
    /\ cut_points' = <<0>>
    /\ current_time' = 0
    /\ cut_origin' = <<Origin("start", 0, <<>>)>>
    /\ pc' = IF name = "silence" THEN "silence_loop" ELSE "scene_loop"

\* process_single_video up to the call of the strategy's planner: two probes
\* (get_video_info in process_single_video and in find_cut_points), then the
\* dispatch on self.strategy
ProcessSingleVideo ==
    /\ pc = "next_file"
    /\ file <= NumFiles
    /\ \E D \in Durations :
         /\ target_duration > 0 => D <= MaxSegments * target_duration
         /\ duration' = D
    /\ video_file' \in VideoFilesAt(file)
    /\ input_size' \in InputSizes
    /\ backend_calls' = <<"probe", "probe">>
    /\ scenes_loose' = <<>>
    /\ scene_times' = <<>>
    /\ silence_periods' = <<>>
    /\ futures' = <<>>
    /\ next_i' = 0
    /\ work_queue' = <<>>
    /\ num_threads' = 0
    /\ failing' = {}
    /\ yielded' = {}
    /\ results' = EmptyBag
    /\ IF strategy = "fixed" THEN EnterFixed
       ELSE /\ pc' = IF strategy = "scene" THEN "scene_entry"
                     ELSE IF strategy = "smart" THEN "smart_entry"
                     ELSE "silence_entry"
            /\ algo' = "none"
            /\ cut_points' = <<>>
            /\ current_time' = 0
            /\ cut_origin' = <<>>
    /\ UNCHANGED <<config_vars, parse_vars, file>>

EnoughScenesTwo(n) == n >= 2

\* if len(scene_times) >= 3
EnoughScenes(n) == n >= 3

\* if len(silence_periods) >= 2
EnoughSilence(n) == n >= 2

\* find_cut_points_smart: the loose scene scan, then (only if it is too poor) the
\* silence scan, then the call of the chosen planner
FindCutPointsSmart ==
    /\ pc = "smart_entry"
    /\ \E loose \in SceneLists(duration) :
         /\ scenes_loose' = loose
         /\ IF EnoughScenes(Len(loose))
            THEN /\ pc' = "scene_entry"
                 /\ backend_calls' = Append(backend_calls, "scenes_0.3")
                 /\ UNCHANGED <<silence_periods, plan_vars>>
            ELSE \E periods \in SilenceLists(duration) :
                   /\ silence_periods' = periods
                   /\ backend_calls' = backend_calls \o <<"scenes_0.3", "silence">>
                   /\ IF EnoughSilence(Len(periods))
                      THEN pc' = "silence_entry" /\ UNCHANGED plan_vars
                      ELSE EnterFixed
    /\ UNCHANGED <<config_vars, parse_vars, file, probe_vars, scene_times, exec_vars>>

\* find_cut_points_scene up to its loop: the scan at the default threshold 0.4 (a
\* frame whose score exceeds 0.4 also exceeds 0.3, so after a loose scan of the
\* same file the marks are among the loose ones), and the fall-back to fixed
\* intervals when nothing was detected
FindCutPointsScene_Entry ==
    /\ pc = "scene_entry"
    /\ \E marks \in SceneLists(duration) :
         /\ "scenes_0.3" \in Range(backend_calls) => Range(marks) \subseteq Range(scenes_loose)
         /\ scene_times' = marks
         /\ IF marks = <<>> THEN EnterFixed ELSE EnterEventLoop("scene")
    /\ backend_calls' = Append(backend_calls, "scenes_0.4")
    /\ UNCHANGED <<config_vars, parse_vars, file, probe_vars, scenes_loose, silence_periods, exec_vars>>

\* find_cut_points_silence up to its loop: the silence scan (the same file scanned
\* again gives the same intervals)
FindCutPointsSilence_Entry ==
    /\ pc = "silence_entry"
    /\ \E periods \in SilenceLists(duration) :
         /\ "silence" \in Range(backend_calls) => periods = silence_periods
         /\ silence_periods' = periods
    /\ backend_calls' = Append(backend_calls, "silence")
    /\ EnterEventLoop("silence")
    /\ UNCHANGED <<config_vars, parse_vars, file, probe_vars, scenes_loose, scene_times, exec_vars>>

\* one test of "while current < duration" in find_cut_points_fixed, with the body
\* or the return that follows it
FixedStep ==
    /\ pc = "fixed_loop"
    /\ Len(cut_points) < MaxCuts
    /\ IF FixedContinues(current_time, duration)
       THEN /\ cut_points' = Append(cut_points, current_time)
            /\ cut_origin' = Append(cut_origin,
                                    Origin("fixed", current_time - target_duration, <<>>))
            /\ current_time' = FixedAdvance(current_time, target_duration)
            /\ UNCHANGED pc
       ELSE /\ pc' = "planned"
            /\ UNCHANGED <<cut_points, cut_origin, current_time>>
    /\ UNCHANGED <<config_vars, parse_vars, file, probe_vars, backend_calls, detect_vars, algo, exec_vars>>

\* one iteration of the while loop of find_cut_points_silence
SilenceStep ==
    /\ pc = "silence_loop"
    /\ Len(cut_points) < MaxCuts
    /\ LET best == BestSilence(silence_periods, current_time, target_duration, duration)
           cut  == SilenceCutPoint(silence_periods, current_time, target_duration, duration)
       IN  IF current_time < duration /\ Accept(cut, current_time, duration)
           THEN /\ cut_points' = Append(cut_points, cut)
                /\ cut_origin' = Append(cut_origin,
                       Origin(IF best # None THEN "event" ELSE "fallback", current_time, best))
                /\ current_time' = cut
                /\ UNCHANGED pc
           ELSE /\ pc' = "planned"
                /\ UNCHANGED <<cut_points, cut_origin, current_time>>
    /\ UNCHANGED <<config_vars, parse_vars, file, probe_vars, backend_calls, detect_vars, algo, exec_vars>>

\* one iteration of the while loop of find_cut_points_scene
SceneStep ==
    /\ pc = "scene_loop"
    /\ Len(cut_points) < MaxCuts
    /\ LET best == BestScene(scene_times, current_time, target_duration, duration)
           cut  == SceneCutPoint(scene_times, current_time, target_duration, duration)
       IN  IF current_time < duration /\ Accept(cut, current_time, duration)
           THEN /\ cut_points' = Append(cut_points, cut)
                /\ cut_origin' = Append(cut_origin,
                       IF Truthy(best) THEN Origin("event", current_time, <<best>>)
                       ELSE Origin("fallback", current_time, <<>>))
                /\ current_time' = cut
                /\ UNCHANGED pc
           ELSE /\ pc' = "planned"
                /\ UNCHANGED <<cut_points, cut_origin, current_time>>
    /\ UNCHANGED <<config_vars, parse_vars, file, probe_vars, backend_calls, detect_vars, algo, exec_vars>>

----------------------------------------------------------------------------
(* The chunk executor of process_single_video *)

\* a filter of get_vertical_filter: its kind and the numbers it is built from
Filter(kind, w, h, off) == [kind |-> kind, w |-> w, h |-> h, off |-> off]

\* return None
NoFilter == Filter("none", 0, 0, 0)

CropTargetWidthRounded(in_h, out_w, out_h) == (2 * in_h * out_w + out_h) \div (2 * out_h)

\* target_width = int(input_height * width / height)
CropTargetWidth(in_h, out_w, out_h) == (in_h * out_w) \div out_h

\* x_offset = (input_width - target_width) // 2
CropXOffset(in_w, target_w) == (in_w - target_w) \div 2

\* scaled_height = int(input_height * width / input_width)
ScaledHeight(in_w, in_h, out_w) == (in_h * out_w) \div in_w

\* y_offset = (height - scaled_height) // 2
YOffset(out_h, scaled_h) == (out_h - scaled_h) \div 2

\* get_vertical_filter(input_width, input_height)
GetVerticalFilter(fmt, size, res) ==
    LET in_w == size[1]  in_h == size[2]  out_w == res[1]  out_h == res[2]
    IN  IF fmt = "none" THEN NoFilter
        ELSE IF fmt = "crop"
        THEN LET tw == CropTargetWidth(in_h, out_w, out_h)
             IN  Filter("crop", tw, in_h, CropXOffset(in_w, tw))
        ELSE IF fmt = "pad"
        THEN LET sh == ScaledHeight(in_w, in_h, out_w)
             IN  Filter("pad", out_w, sh, YOffset(out_h, sh))
        ELSE IF fmt = "blur"
        THEN LET sh == ScaledHeight(in_w, in_h, out_w)
             IN  Filter("blur", out_w, sh, YOffset(out_h, sh))
        ELSE NoFilter

NeedsReencodeFlagOnly(re, fmt) == re

\* needs_reencode = self.re_encode or self.vertical_format != "none"
NeedsReencode(re, fmt) == re \/ fmt # "none"

\* the command a future has before a worker has built one
NoCmd == [codec |-> "none", filter |-> NoFilter, ss |-> 0, t |-> 0]

\* the command create_chunk builds and runs: -ss start, -t end - start, the
\* filter if there is one, and libx264/aac ("transcode") or -c copy ("copy")
CreateChunkCmd(spec, re, fmt, size, res) ==
    IF NeedsReencode(re, fmt)
    THEN [codec |-> "transcode", filter |-> GetVerticalFilter(fmt, size, res),
          ss |-> spec.start, t |-> spec.end - spec.start]
    ELSE [codec |-> "copy", filter |-> NoFilter,
          ss |-> spec.start, t |-> spec.end - spec.start]

RECURSIVE Digits(_)
\* the decimal digits of n
Digits(n) == IF n < 10 THEN <<n>> ELSE Append(Digits(n \div 10), n % 10)

RECURSIVE Zfill(_, _)
\* str.zfill(width), and the 0-padding of a format like 03d: zeros in front up
\* to the width, nothing cut off
Zfill(digits, width) ==
    IF Len(digits) >= width THEN digits ELSE Zfill(<<0>> \o digits, width)

\* extract_show_info: the show name, season and episode of a file name that
\* carries an SxxEyy tag; the extension plays no part
ExtractShowInfo(name) == <<name.show, Zfill(name.season, 2), Zfill(name.episode, 2)>>

\* part_str = f"{part_num:03d}"
PartStr(part_num) == Zfill(Digits(part_num), 3)

OutputFilenameNoPart(info, part_num) == <<info[1], info[2], info[3], <<>>>>

\* output_filename = f"{show_name}_S{season}E{episode}_Part{part_str}.mp4"
OutputFilename(info, part_num) == <<info[1], info[2], info[3], PartStr(part_num)>>

\* range(len(cut_points) - 1)
NumSpecs(cuts) == IF Len(cuts) >= 1 THEN Len(cuts) - 1 ELSE 0

\* start = cut_points[i] ; end = cut_points[i + 1] ; part_num = i + 1  (i from 0)
ChunkSpec(cuts, i) == [start |-> cuts[i + 1], end |-> cuts[i + 2], part |-> i + 1]

Running == { k \in 1..Len(futures) : futures[k].state = "Running" }

Finished == { k \in 1..Len(futures) : futures[k].state \in {"Completed", "Failed"} }

AlwaysSpawn(n, limit) == n + 1

\* ThreadPoolExecutor.submit: a worker thread is added while fewer than
\* max_workers exist
AdjustThreadCount(n, limit) == IF n < limit THEN n + 1 ELSE n

\* with ThreadPoolExecutor(max_workers=self.max_workers) as executor; the backend's
\* verdict on each chunk (the exit status subprocess.run(check=True) will see) is
\* fixed here
CreateExecutor ==
    /\ pc = "planned"
    /\ pc' = "submit"
    /\ next_i' = 0
    /\ failing' \in SUBSET (1..NumSpecs(cut_points))
    /\ UNCHANGED <<config_vars, parse_vars, file, probe_vars, backend_calls, detect_vars, plan_vars,
                   futures, work_queue, num_threads, yielded, results>>

\* one test of the for loop that submits the chunks, with the body (build the
\* spec, executor.submit, futures.append) or the loop's end
Submit ==
    /\ pc = "submit"
    /\ IF next_i < Len(cut_points) - 1
       THEN /\ futures' = Append(futures,
                                 [spec |-> ChunkSpec(cut_points, next_i), state |-> "Pending",
                                  cmd |-> NoCmd,
                                  output_path |->
                                      OutputFilename(ExtractShowInfo(video_file),
                                                     ChunkSpec(cut_points, next_i).part)])
            /\ work_queue' = Append(work_queue, next_i + 1)
            /\ num_threads' = AdjustThreadCount(num_threads, max_workers)
            /\ next_i' = next_i + 1
            /\ UNCHANGED pc
       ELSE /\ pc' = "as_completed"
            /\ UNCHANGED <<futures, work_queue, num_threads, next_i>>
    /\ UNCHANGED <<config_vars, parse_vars, file, probe_vars, backend_calls, detect_vars, plan_vars,
                   failing, yielded, results>>

WorkerStartUnlessFailed ==
    /\ work_queue # <<>>
    /\ Cardinality(Running) < num_threads
    /\ \A k \in 1..Len(futures) : futures[k].state # "Failed"
    /\ futures' = [futures EXCEPT
                      ![Head(work_queue)].state = "Running",
                      ![Head(work_queue)].cmd =
                          CreateChunkCmd(futures[Head(work_queue)].spec, re_encode,
                                         vertical_format, input_size, output_resolution)]
    /\ work_queue' = Tail(work_queue)
    /\ UNCHANGED <<config_vars, parse_vars, file, pc, probe_vars, backend_calls, detect_vars, plan_vars,
                   next_i, num_threads, failing, yielded, results>>

\* an idle worker thread takes the oldest queued chunk and calls create_chunk
WorkerStart ==
    /\ work_queue # <<>>
    /\ Cardinality(Running) < num_threads
    /\ futures' = [futures EXCEPT
                      ![Head(work_queue)].state = "Running",
                      ![Head(work_queue)].cmd =
                          CreateChunkCmd(futures[Head(work_queue)].spec, re_encode,
                                         vertical_format, input_size, output_resolution)]
    /\ work_queue' = Tail(work_queue)
    /\ UNCHANGED <<config_vars, parse_vars, file, pc, probe_vars, backend_calls, detect_vars, plan_vars,
                   next_i, num_threads, failing, yielded, results>>

\* create_chunk returns (the future holds output_path.name) or raises
\* CalledProcessError (the future holds the exception)
CreateChunkReturn ==
    /\ \E k \in Running :
         futures' = [futures EXCEPT ![k].state =
                        IF k \in failing THEN "Failed" ELSE "Completed"]
    /\ UNCHANGED <<config_vars, parse_vars, file, pc, probe_vars, backend_calls, detect_vars, plan_vars,
                   next_i, work_queue, num_threads, failing, yielded, results>>

LoopDoneAtFirst(seen, n) == seen # {} \/ n = 0

\* as_completed has yielded every future of the list, and the with block's
\* shutdown(wait=True) has nothing left to wait for
LoopDone(seen, n) == seen = 1..n

OutcomeUntagged(k, state) ==
    [index |-> IF state = "Completed" THEN k ELSE 0, ok |-> state = "Completed"]

\* what the as_completed loop observes of future k: its result, or the exception
\* caught and printed (whose command line names the part's output file)
Outcome(k, state) == [index |-> k, ok |-> state = "Completed"]

\* one iteration of "for future in as_completed(futures)", or the end of the loop
\* and of the with block, after which process_videos moves to the next file
AsCompleted ==
    /\ pc = "as_completed"
    /\ IF ~LoopDone(yielded, Len(futures))
       THEN /\ \E k \in Finished \ yielded :
                 /\ yielded' = yielded \cup {k}
                 /\ results' = results (+) SetToBag({Outcome(k, futures[k].state)})
            /\ UNCHANGED <<pc, file>>
       ELSE /\ pc' = "next_file"
            /\ file' = file + 1
            /\ UNCHANGED <<yielded, results>>
    /\ UNCHANGED <<config_vars, parse_vars, probe_vars, backend_calls, detect_vars, plan_vars,
                   futures, next_i, work_queue, num_threads, failing>>

\* the for loop of process_videos has no file left
ProcessVideosDone ==
    /\ pc = "next_file"
    /\ file > NumFiles
    /\ pc' = "finished"
    /\ UNCHANGED <<config_vars, parse_vars, file, probe_vars, backend_calls, detect_vars, plan_vars,
                   exec_vars>>
\* find_cut_points on its own: the planners run to their return, each loop
\* iteration being taken eventually (the loops have no blocking call)
PlanNext ==
    \/ ProcessSingleVideo
    \/ FindCutPointsSmart
    \/ FindCutPointsScene_Entry
    \/ FindCutPointsSilence_Entry
    \/ FixedStep
    \/ SilenceStep
    \/ SceneStep

PlanFairSpec ==
    /\ Init
    /\ [][PlanNext]_vars
    /\ WF_vars(FixedStep)
    /\ WF_vars(SilenceStep)
    /\ WF_vars(SceneStep)

----------------------------------------------------------------------------
(* detect_silence_fast: the parser of the silence filter's output *)

\* A line of the backend's stderr, by what the parser does with it: the marker it
\* contains, whether the numbers after the marker(s) convert with float(), and
\* the values they convert to (ticks).
Line(marker, ok, time, dur) == [marker |-> marker, ok |-> ok, time |-> time, dur |-> dur]
\* "... silence_start: 10"
StartLine(t) == Line("silence_start", TRUE, t, 0)
\* "... silence_end: 20 | silence_duration: 10"
EndLine(t, d) == Line("silence_end", TRUE, t, d)
\* a silence_start line cut off before, or garbled in, its number
BadStartLine == Line("silence_start", FALSE, 0, 0)
\* a silence_end line cut off before, or garbled in, one of its two numbers
BadEndLine == Line("silence_end", FALSE, 0, 0)
\* any other line of the log
OtherLine == Line("none", TRUE, 0, 0)

\* most lines of one output
MaxLines == 4

LinePool == { StartLine(20), StartLine(80), BadStartLine,
              EndLine(40, 20), EndLine(100, 20), EndLine(80, 0), BadEndLine, OtherLine }

Outputs == UNION { [1..n -> LinePool] : n \in 0..MaxLines }

\* if duration >= self.min_silence_duration   (0.3 s; a tick is 0.5 s)
LongEnough(dur) == 5 * dur >= 3

\* one iteration of "for line in result.stderr.split('\n')"
ParseLine ==
    /\ line_no <= Len(stderr_lines)
    /\ LET line == stderr_lines[line_no] IN
       IF line.marker = "silence_start"
       THEN /\ IF line.ok
               THEN current_start' = line.time /\ start_line' = line_no
               ELSE UNCHANGED <<current_start, start_line>>
            /\ UNCHANGED <<parsed_periods, pairing>>
       ELSE IF line.marker = "silence_end" /\ current_start # NoStart
       THEN IF line.ok
            THEN /\ IF LongEnough(line.dur)
                    THEN /\ parsed_periods' =
                               Append(parsed_periods, <<current_start, line.time, line.dur>>)
                         /\ pairing' = Append(pairing, <<start_line, line_no>>)
                    ELSE UNCHANGED <<parsed_periods, pairing>>
                 /\ current_start' = NoStart
                 /\ UNCHANGED start_line
            ELSE UNCHANGED <<current_start, start_line, parsed_periods, pairing>>
       ELSE UNCHANGED <<current_start, start_line, parsed_periods, pairing>>
    /\ line_no' = line_no + 1
    /\ UNCHANGED <<stderr_lines, config_vars, file, pc, probe_vars, backend_calls,
                   detect_vars, plan_vars, exec_vars>>

\* detect_silence_fast on its own, for every output of at most MaxLines lines
ParseInit ==
    /\ target_duration = 240
    /\ strategy = "silence"
    /\ max_workers = 1
    /\ vertical_format = "blur"
    /\ re_encode = FALSE
    /\ output_resolution = <<1080, 1920>>
    /\ NoFileYet
    /\ stderr_lines \in Outputs
    /\ line_no = 1
    /\ current_start = NoStart
    /\ parsed_periods = <<>>
    /\ start_line = 0
    /\ pairing = <<>>

ParseNext == ParseLine

ParseSpec == ParseInit /\ [][ParseNext]_vars

Next ==
    \/ ProcessSingleVideo
    \/ FindCutPointsSmart
    \/ FindCutPointsScene_Entry
    \/ FindCutPointsSilence_Entry
    \/ FixedStep
    \/ SilenceStep
    \/ SceneStep
    \/ CreateExecutor
    \/ Submit
    \/ WorkerStart
    \/ CreateChunkReturn
    \/ AsCompleted
    \/ ProcessVideosDone

Spec == Init /\ [][Next]_vars

\* The executor on its own: the files planned by the fixed strategy, with the
\* worker threads scheduled and every backend call returning
ExecInit == Init /\ strategy = "fixed"

ExecNext ==
    \/ ProcessSingleVideo
    \/ FixedStep
    \/ CreateExecutor
    \/ Submit
    \/ WorkerStart
    \/ CreateChunkReturn
    \/ AsCompleted
    \/ ProcessVideosDone

ExecFairSpec ==
    ExecInit /\ [][ExecNext]_vars /\ WF_vars(WorkerStart) /\ WF_vars(CreateChunkReturn)

----------------------------------------------------------------------------
(* Positions of the main thread *)

\* find_cut_points has returned for the file whose data the state holds
Planned ==
    \/ pc \in {"planned", "submit", "as_completed", "finished"}
    \/ pc = "next_file" /\ file > 1

\* the submit loop has dispatched every chunk of that file
Dispatched ==
    \/ pc \in {"as_completed", "finished"}
    \/ pc = "next_file" /\ file > 1

\* the as_completed loop has handed out every future of that file
Drained ==
    \/ pc = "finished"
    \/ pc = "next_file" /\ file > 1

InPlannerLoop == pc \in {"fixed_loop", "silence_loop", "scene_loop"}

----------------------------------------------------------------------------
(* C1 *)

\* the chunk ranges the planner's cut points stand for: consecutive pairs, then
\* the pair (last cut point, total duration)
TilingOf(cuts, D) ==
    [i \in 1..Len(cuts) |->
        [start |-> cuts[i],
         end   |-> IF i < Len(cuts) THEN cuts[i + 1] ELSE D,
         part  |-> i]]

DispatchedSpecs == [k \in 1..Len(futures) |-> futures[k].spec]

\* C1: once the chunks of a file are dispatched, their specs are the consecutive
\* pairs of the cut points followed by (last cut point, duration), as many chunks
\* as cut points, numbered from 1.
C1_ChunksTileWholeFile == Dispatched => DispatchedSpecs = TilingOf(cut_points, duration)

----------------------------------------------------------------------------
(* C2 *)

SilenceStartsIn(lo, hi) == { p \in Range(silence_periods) : lo <= p[1] /\ p[1] <= hi }

SceneMarksIn(lo, hi) == { m \in Range(scene_times) : lo <= m /\ m <= hi }

\* C2 as stated, for the files that have a positive duration: whenever
\* duration <= target, every strategy plans exactly [0].
C2_ShortFileSingleCut ==
    Planned /\ 0 < duration /\ duration <= target_duration => cut_points = <<0>>

\* the planner that ran finds no event in the first search window, cut at the
\* end of the file
NoEventInFirstWindow ==
    \/ algo = "fixed"
    \/ algo = "silence" /\ SilenceStartsIn(target_duration - SearchWindow, duration) = {}
    \/ algo = "scene" /\ SceneMarksIn(target_duration - SearchWindow, duration) = {}

\* C2 amended: with 0 < duration <= target the plan is [0] under the fixed
\* strategy, and under the silence and scene strategies when no detected silence
\* start / scene mark lies in [target - window, duration]; a file of duration 0
\* gets [] from the fixed planner and [0] from the others.
C2_ShortFileSingleCutUnlessEvent ==
    Planned /\ duration <= target_duration =>
        IF duration <= 0
        THEN cut_points = IF algo = "fixed" THEN <<>> ELSE <<0>>
        ELSE NoEventInFirstWindow => cut_points = <<0>>

C2_Witness ==
    /\ Planned
    /\ 0 < duration /\ duration <= target_duration
    /\ algo = "silence"
    /\ silence_periods # <<>>
    /\ NoEventInFirstWindow
    /\ cut_points = <<0>>

----------------------------------------------------------------------------
(* C3 *)

WellFormedCuts(cuts, D) ==
    /\ Len(cuts) >= 1
    /\ cuts[1] = 0
    /\ \A i \in 1..(Len(cuts) - 1) : cuts[i] < cuts[i + 1]
    /\ cuts[Len(cuts)] < D

\* C3: with duration > 0 and target > 0 the returned cut points, and the list
\* after every append of the planning loop, are non-empty, start with 0, increase
\* strictly and end below the duration.
C3_CutPointsWellFormed ==
    duration > 0 /\ target_duration > 0 =>
        /\ Planned => WellFormedCuts(cut_points, duration)
        /\ InPlannerLoop /\ cut_points # <<>> => WellFormedCuts(cut_points, duration)

C3_Witness ==
    /\ Planned
    /\ algo = "silence"
    /\ Len(cut_points) >= 3
    /\ \E i \in 1..Len(cut_origin) : cut_origin[i].kind = "fallback"
    /\ \E i \in 1..Len(cut_origin) : cut_origin[i].kind = "event"

----------------------------------------------------------------------------
(* C4 *)

IndexOf(seq, x) == CHOOSE i \in 1..Len(seq) : seq[i] = x

\* p is the interval the claim describes for a step that starts at cut prev
IsLongestInWindow(p, prev) ==
    LET cands == SilenceStartsIn(prev + target_duration - SearchWindow,
                                 Min(prev + target_duration + SearchWindow, duration))
    IN  /\ p \in cands
        /\ \A q \in cands : q[3] <= p[3]
        /\ \A q \in cands :
             q[3] = p[3] => IndexOf(silence_periods, p) <= IndexOf(silence_periods, q)

\* C4: in the silence planner each step picks the longest interval starting in
\* [prev + T - w, min(prev + T + w, D)], the first such on ties, and none only if
\* none starts there; a cut point taken from an interval is its midpoint, and the
\* interval starts within [prev + T - w, prev + T + w]; D = 300 s, T = 120 s with
\* intervals (115,116) and (235,237) gives [0, 115.5, 236].
C4_SilencePicksLongestMidpoint ==
    /\ pc = "silence_loop" =>
         LET best == BestSilence(silence_periods, current_time, target_duration, duration)
             cands == SilenceStartsIn(current_time + target_duration - SearchWindow,
                          Min(current_time + target_duration + SearchWindow, duration))
         IN  IF cands = {} THEN best = None ELSE IsLongestInWindow(best, current_time)
    /\ algo = "silence" =>
         \A i \in 1..Len(cut_origin) :
            LET o == cut_origin[i] IN
            /\ o.kind = "event" =>
                 /\ IsLongestInWindow(o.ev, o.prev)
                 /\ 2 * cut_points[i] = o.ev[1] + o.ev[2]
                 /\ o.prev + target_duration - SearchWindow <= o.ev[1]
                 /\ o.ev[1] <= o.prev + target_duration + SearchWindow
            /\ o.kind = "fallback" =>
                 SilenceStartsIn(o.prev + target_duration - SearchWindow,
                     Min(o.prev + target_duration + SearchWindow, duration)) = {}
    /\ ( /\ Planned /\ algo = "silence"
         /\ duration = 600 /\ target_duration = 240
         /\ silence_periods = << <<230, 232, 2>>, <<470, 474, 4>> >> )
       => cut_points = <<0, 231, 472>>

C4_Witness ==
    /\ Planned /\ algo = "silence"
    /\ duration = 600 /\ target_duration = 240
    /\ silence_periods = << <<230, 232, 2>>, <<470, 474, 4>> >>
    /\ Len(cut_points) = 3
    /\ cut_origin[2].kind = "event" /\ cut_origin[3].kind = "event"

----------------------------------------------------------------------------
(* C5 *)

\* m is the mark the claim describes for a step that starts at cut cur
IsNearestInWindow(m, cur) ==
    LET cands == SceneMarksIn(cur + target_duration - SearchWindow,
                              Min(cur + target_duration + SearchWindow, duration))
        ideal == cur + target_duration
    IN  /\ m \in cands
        /\ \A q \in cands : Abs(m - ideal) <= Abs(q - ideal)
        /\ \A q \in cands :
             Abs(q - ideal) = Abs(m - ideal)
                 => IndexOf(scene_times, m) <= IndexOf(scene_times, q)

\* C5: at each step of the scene planner, if some scene mark lies in
\* [cur + T - w, min(cur + T + w, D)] the candidate cut point is the mark of that
\* range nearest to cur + T (the first such on ties); and every cut point taken
\* from an event is a scene mark.
C5_SceneCandidateIsNearestMark ==
    /\ pc = "scene_loop" /\ current_time < duration =>
         LET cands == SceneMarksIn(current_time + target_duration - SearchWindow,
                          Min(current_time + target_duration + SearchWindow, duration))
         IN  cands # {} =>
                IsNearestInWindow(
                    SceneCutPoint(scene_times, current_time, target_duration, duration),
                    current_time)
    /\ algo = "scene" =>
         \A i \in 1..Len(cut_origin) :
            cut_origin[i].kind = "event" => cut_points[i] \in Range(scene_times)

----------------------------------------------------------------------------
(* C6 *)

EventCuts == { i \in 1..Len(cut_origin) : cut_origin[i].kind = "event" }

\* C6 as stated: every cut point chosen from a detected event lies between
\* target - window and target + window after the previous cut point.
C6_EventCutWithinWindow ==
    algo \in {"silence", "scene"} =>
        \A i \in EventCuts :
            /\ target_duration - SearchWindow <= cut_points[i] - cut_origin[i].prev
            /\ cut_points[i] - cut_origin[i].prev <= target_duration + SearchWindow

\* C6 amended: a cut point chosen from a scene mark lies between target - window
\* and target + window after the previous cut point; for a cut point chosen from
\* a silence interval it is the interval's start that does, and the cut point,
\* its midpoint, lies at least target - window and at most target + window plus
\* half the interval's length after the previous cut point.
C6_EventStartWithinWindow ==
    /\ algo = "scene" =>
         \A i \in EventCuts :
            /\ target_duration - SearchWindow <= cut_points[i] - cut_origin[i].prev
            /\ cut_points[i] - cut_origin[i].prev <= target_duration + SearchWindow
    /\ algo = "silence" =>
         \A i \in EventCuts :
            LET o == cut_origin[i] IN
            /\ target_duration - SearchWindow <= o.ev[1] - o.prev
            /\ o.ev[1] - o.prev <= target_duration + SearchWindow
            /\ target_duration - SearchWindow <= cut_points[i] - o.prev
            /\ 2 * (cut_points[i] - o.prev)
                   <= 2 * (target_duration + SearchWindow) + (o.ev[2] - o.ev[1])

C6_Witness ==
    /\ Planned /\ algo = "silence"
    /\ \E i \in EventCuts :
          cut_points[i] - cut_origin[i].prev > target_duration + SearchWindow
    /\ Len(cut_points) >= 3

----------------------------------------------------------------------------
(* C7 *)

\* C7: the fixed strategy scans nothing and returns 0, T, 2T, ..., every
\* multiple of T below the duration; the segment from the last cut point to the
\* end of the file is the only one that may differ from T, and it is shorter.
C7_FixedMultiplesOfTarget ==
    Planned /\ strategy = "fixed" /\ target_duration > 0 =>
        /\ backend_calls = <<"probe", "probe">>
        /\ \A i \in 1..Len(cut_points) : cut_points[i] = (i - 1) * target_duration
        /\ \A i \in 1..Len(cut_points) : cut_points[i] < duration
        /\ Len(cut_points) * target_duration >= duration
        /\ \A i \in 1..(Len(cut_points) - 1) :
              cut_points[i + 1] - cut_points[i] = target_duration
        /\ cut_points # <<>> =>
              /\ duration - Last(cut_points) > 0
              /\ duration - Last(cut_points) <= target_duration

C7_Witness ==
    /\ Planned /\ strategy = "fixed"
    /\ Len(cut_points) >= 3
    /\ duration - Last(cut_points) < target_duration

----------------------------------------------------------------------------
(* C8 *)

Probes == <<"probe", "probe">>

\* C8: the smart strategy scans scenes at the loose threshold first; with 3 or
\* more marks it returns the scene strategy's cut points and never scans
\* silence; otherwise it scans silence and with 2 or more intervals returns the
\* silence strategy's cut points; otherwise it returns the fixed strategy's.
C8_SmartChain ==
    strategy = "smart" /\ target_duration > 0 =>
        /\ Len(backend_calls) >= 3 => backend_calls[3] = "scenes_0.3"
        /\ Planned =>
             IF Len(scenes_loose) >= 3
             THEN /\ cut_points = FindCutPointsScene(scene_times, target_duration, duration)
                  /\ backend_calls = Probes \o <<"scenes_0.3", "scenes_0.4">>
             ELSE IF Len(silence_periods) >= 2
             THEN /\ cut_points = FindCutPointsSilence(silence_periods, target_duration,
                                                       duration)
                  /\ backend_calls = Probes \o <<"scenes_0.3", "silence", "silence">>
             ELSE /\ cut_points = FindCutPointsFixed(target_duration, duration)
                  /\ backend_calls = Probes \o <<"scenes_0.3", "silence">>

C8_Witness ==
    /\ strategy = "smart" /\ Planned
    /\ Len(scenes_loose) >= 3
    /\ algo = "scene"
    /\ Len(cut_points) >= 2
    /\ "silence" \notin Range(backend_calls)

----------------------------------------------------------------------------
(* C9 *)

\* C9: when exactly one chunk k of the N dispatched for a file fails in the
\* backend, the as_completed loop ends having seen N outcomes, one per chunk:
\* N - 1 successes and one failure, which carries index k; and at no time is an
\* outcome seen twice.
C9_FailureIsolation ==
    /\ \A r \in BagToSet(results) : CopiesIn(r, results) = 1
    /\ Drained /\ Cardinality(failing) = 1 =>
         /\ BagCardinality(results) = Len(futures)
         /\ BagToSet(results) =
               { [index |-> k, ok |-> k \notin failing] : k \in 1..Len(futures) }
         /\ Cardinality({ r \in BagToSet(results) : r.ok }) = Len(futures) - 1
         /\ { r.index : r \in { x \in BagToSet(results) : ~x.ok } } = failing

C9_Witness ==
    /\ Drained
    /\ Cardinality(failing) = 1
    /\ Len(futures) >= 3
    /\ max_workers = 2
    /\ BagCardinality(results) = Len(futures)

----------------------------------------------------------------------------
(* C10 *)

\* C10: the chunks whose create_chunk call is in flight never outnumber
\* max_workers.
C10_RunningWithinLimit == Cardinality(Running) <= max_workers

C10_Witness ==
    /\ max_workers = 2
    /\ Cardinality(Running) = max_workers
    /\ work_queue # <<>>

----------------------------------------------------------------------------
(* C11 *)

Terminal(k) == k <= Len(futures) /\ futures[k].state \in {"Completed", "Failed"}

\* the only moves of a chunk: Pending -> Running -> Completed or Failed, the
\* last by the backend's verdict on that chunk alone
ChunkMovesOnlyForward ==
    \A k \in 1..Len(futures) :
        k <= Len(futures') /\ futures'[k] # futures[k] =>
            \/ futures[k].state = "Pending" /\ futures'[k].state = "Running"
            \/ /\ futures[k].state = "Running"
               /\ futures'[k].state = IF k \in failing THEN "Failed" ELSE "Completed"

\* C11: with the workers scheduled and every backend call returning, each
\* submitted chunk reaches Completed or Failed; no step takes a chunk out of
\* Pending or Running other than to start it or to end it by its own verdict,
\* whatever has become of its siblings.
C11_EveryChunkEnds ==
    /\ [][futures' # <<>> => ChunkMovesOnlyForward]_vars
    /\ \A k \in 1..MaxCuts : (k <= Len(futures)) ~> Terminal(k)

C11_Witness ==
    /\ max_workers = 1
    /\ Len(futures) >= 3
    /\ futures[1].state = "Failed"
    /\ futures[3].state = "Completed"

----------------------------------------------------------------------------
(* C12 *)

AllChunksEnded == \A k \in 1..Len(futures) : Terminal(k)

\* C12: a step that probes, scans or plans (for the next file), or that moves
\* on to the next file, is taken only when every chunk dispatched so far has
\* ended, failed ones included; and a chunk is dispatched only by the submit loop,
\* after find_cut_points has returned, from cut points that no longer change.
C12_FilesStrictlySequential ==
    [][ /\ backend_calls' # backend_calls => AllChunksEnded
        /\ file' # file => AllChunksEnded /\ work_queue = <<>>
        /\ cut_points' # cut_points => AllChunksEnded
        /\ Len(futures') > Len(futures) =>
              /\ pc = "submit"
              /\ cut_points' = cut_points
              /\ Last(futures').spec.start \in Range(cut_points)
              /\ Last(futures').spec.end \in Range(cut_points)
        /\ futures # <<>> /\ futures' # <<>> => cut_points' = cut_points
      ]_vars

C12_Witness ==
    /\ pc = "next_file"
    /\ file = 2
    /\ Len(futures) >= 2
    /\ failing # {}
    /\ AllChunksEnded
    /\ ENABLED ProcessSingleVideo

----------------------------------------------------------------------------
(* C13 *)

\* the chunks for which create_chunk has issued its backend command
Started == { k \in 1..Len(futures) : futures[k].state # "Pending" }

\* C13: a command issued under a vertical format other than "none", or carrying
\* a filter, transcodes; a stream copy is issued only with format "none" and
\* without --re-encode.
C13_TransformImpliesTranscode ==
    \A k \in Started :
        LET cmd == futures[k].cmd IN
        /\ cmd.codec \in {"transcode", "copy"}
        /\ vertical_format # "none" => cmd.codec = "transcode"
        /\ cmd.filter.kind # "none" => cmd.codec = "transcode"
        /\ cmd.codec = "copy" => vertical_format = "none" /\ ~re_encode
        /\ vertical_format = "none" /\ ~re_encode => cmd.codec = "copy"

C13_Witness ==
    /\ vertical_format = "pad"
    /\ ~re_encode
    /\ \E k \in Started : futures[k].cmd.codec = "transcode" /\ futures[k].cmd.filter.kind = "pad"

----------------------------------------------------------------------------
(* C14 *)

FullHdToVertical ==
    /\ vertical_format = "crop"
    /\ input_size = <<1920, 1080>>
    /\ output_resolution = <<1080, 1920>>

\* C14 as stated: crop from 1920x1080 to 1080x1920 has targetWidth 608 and
\* xOffset 656.
C14_CropWidth608 ==
    FullHdToVertical =>
        \A k \in Started : futures[k].cmd.filter.w = 608 /\ futures[k].cmd.filter.off = 656

\* C14 amended: crop from 1920x1080 to 1080x1920 has targetWidth 607, the floor
\* of 1080 * 1080 / 1920 = 607.5, and xOffset 656, the floor of (1920 - 607) / 2;
\* in general targetWidth is the floor of sourceHeight * outW / outH and xOffset
\* the floor of (sourceWidth - targetWidth) / 2.
C14_CropWidth607 ==
    /\ FullHdToVertical =>
         \A k \in Started :
            futures[k].cmd.filter.w = 607 /\ futures[k].cmd.filter.off = 656
    /\ vertical_format = "crop" =>
         \A k \in Started :
            LET f == futures[k].cmd.filter IN
            /\ f.kind = "crop"
            /\ f.w * output_resolution[2] <= input_size[2] * output_resolution[1]
            /\ input_size[2] * output_resolution[1] < (f.w + 1) * output_resolution[2]
            /\ 2 * f.off <= input_size[1] - f.w
            /\ input_size[1] - f.w < 2 * f.off + 2

C14_Witness == FullHdToVertical /\ \E k \in Started : futures[k].cmd.filter.kind = "crop"

----------------------------------------------------------------------------
(* C15 *)

\* C15: under the crop format a source narrower than the target aspect gets no
\* chunk dispatched, and no command is issued with a crop whose x offset is
\* negative or whose width exceeds the source's.
C15_NarrowSourceNotCropped ==
    /\ ( /\ vertical_format = "crop"
         /\ CropTargetWidth(input_size[2], output_resolution[1], output_resolution[2])
               > input_size[1] )
       => futures = <<>>
    /\ \A k \in Started :
          futures[k].cmd.filter.kind = "crop" =>
              /\ futures[k].cmd.filter.off >= 0
              /\ futures[k].cmd.filter.w <= input_size[1]

----------------------------------------------------------------------------
(* C16 *)

\* C16: with a target duration that is not positive no backend call (probe, scan
\* or chunk command) is made and no planner loop is entered, whatever the
\* strategy.
C16_NonPositiveTargetRejected ==
    target_duration <= 0 =>
        /\ backend_calls = <<>>
        /\ ~InPlannerLoop
        /\ futures = <<>>

----------------------------------------------------------------------------
(* C17 *)

Markers == {"silence_start", "silence_end"}

\* C17: every interval the parser emits has its start from a well-formed
\* silence_start line, its end and duration from the first silence_end line after
\* it, with no other silence_start marker between the two, and is at least the
\* minimum silence duration long; a malformed line produces no interval.
C17_StartPairsWithNextEnd ==
    \A k \in 1..Len(parsed_periods) :
        LET s == pairing[k][1]
            e == pairing[k][2]
        IN  /\ s < e
            /\ stderr_lines[s] = StartLine(parsed_periods[k][1])
            /\ stderr_lines[e] = EndLine(parsed_periods[k][2], parsed_periods[k][3])
            /\ LongEnough(parsed_periods[k][3])
            /\ \A j \in (s + 1)..(e - 1) : stderr_lines[j].marker \notin Markers

----------------------------------------------------------------------------
(* C18 *)

\* the silence strategy was given no interval, or the scene strategy no mark
NoEventSupplied ==
    \/ strategy = "silence" /\ silence_periods = <<>>
    \/ strategy = "scene" /\ scene_times = <<>>

\* the planner of the strategy as a function, applied to the empty event list
PlanWithoutEvents(T, D) ==
    IF strategy = "silence" THEN FindCutPointsSilence(<<>>, T, D)
    ELSE FindCutPointsScene(<<>>, T, D)

\* C18 as stated: without any event the silence and the scene strategy return the
\* fixed strategy's cut points, for every duration and every target > 0.
C18_NoEventsSameAsFixed ==
    Planned /\ NoEventSupplied /\ target_duration > 0 =>
        /\ cut_points = FindCutPointsFixed(target_duration, duration)
        /\ PlanWithoutEvents(target_duration, duration)
              = FindCutPointsFixed(target_duration, duration)

\* C18 amended: without any event the silence and the scene strategy return the
\* fixed strategy's cut points, for every duration > 0 and every target > 0
\* (D = 300 s, T = 120 s gives [0, 120, 240]); a file of duration 0 gives [0]
\* under the silence strategy and [] under the fixed one.
C18_NoEventsSameAsFixedPositive ==
    /\ Planned /\ NoEventSupplied /\ target_duration > 0 /\ duration > 0 =>
          /\ cut_points = FindCutPointsFixed(target_duration, duration)
          /\ PlanWithoutEvents(target_duration, duration)
                = FindCutPointsFixed(target_duration, duration)
          /\ target_duration = 240 /\ duration = 600 => cut_points = <<0, 240, 480>>
    /\ Planned /\ NoEventSupplied /\ target_duration > 0 /\ duration = 0 =>
          cut_points = IF strategy = "silence" THEN <<0>> ELSE <<>>

C18_Witness ==
    /\ Planned
    /\ strategy = "silence"
    /\ silence_periods = <<>>
    /\ target_duration = 240
    /\ duration = 600
    /\ cut_points = <<0, 240, 480>>

----------------------------------------------------------------------------
(* C19 *)

\* C19: under the silence and the scene strategy with target > 0, the planned
\* cut points leave a final segment, from the last cut point to the end of the
\* file, of at most target + window.
C19_TailWithinTargetPlusWindow ==
    /\ Planned
    /\ strategy \in {"silence", "scene"}
    /\ target_duration > 0
    /\ cut_points # <<>>
    => duration - Last(cut_points) <= target_duration + SearchWindow

----------------------------------------------------------------------------
(* C20 *)

\* most cut points a plan can have: the start, one per event, and one per whole
\* target duration the file holds
CutBound ==
    2 + Len(silence_periods) + Len(scenes_loose) + Len(scene_times)
      + (duration \div target_duration)

\* an iteration of a planner loop appends a cut point above the last one and
\* stays in the loop, or leaves the loop with the list as it is
IterationAppendsOrExits ==
    \/ /\ pc' = pc
       /\ Len(cut_points') = Len(cut_points) + 1
       /\ cut_points # <<>> => Last(cut_points') > Last(cut_points)
    \/ /\ pc' = "planned"
       /\ cut_points' = cut_points

\* C20: with target > 0 every planner loop ends: each iteration appends a cut
\* point strictly above the previous one or leaves the loop, the number of cut
\* points is bounded by the inputs, and a loop once entered reaches its return.
C20_PlanningTerminates ==
    /\ [][InPlannerLoop /\ target_duration > 0 => IterationAppendsOrExits]_vars
    /\ [](target_duration > 0 => Len(cut_points) <= CutBound)
    /\ (InPlannerLoop /\ target_duration > 0) ~> (pc = "planned")

C20_Witness ==
    /\ pc = "planned"
    /\ algo = "scene"
    /\ target_duration = 30
    /\ Len(cut_points) >= 3

----------------------------------------------------------------------------
(* C21 *)

\* the chunks handed to the executor whose backend command has not ended
InFlight == { k \in 1..Len(futures) : futures[k].state \in {"Pending", "Running"} }

\* the chunks of the file at hand have the part numbers 1, 2, ... and pairwise
\* different output files
DistinctOutputs ==
    /\ \A k \in 1..Len(futures) : futures[k].spec.part = k
    /\ \A j, k \in 1..Len(futures) :
          j # k => futures[j].output_path # futures[k].output_path

\* every chunk not yet started is queued exactly once, and no other chunk is
SubmittedOnce ==
    /\ Range(work_queue) = { k \in 1..Len(futures) : futures[k].state = "Pending" }
    /\ \A i, j \in 1..Len(work_queue) : i # j => work_queue[i] # work_queue[j]

\* a backend command starts only for a chunk that never had one, and the output
\* file of a chunk stays what it was at submission
NoRetry ==
    \A k \in 1..Len(futures) :
        k <= Len(futures') =>
            /\ futures'[k].output_path = futures[k].output_path
            /\ futures'[k].state = "Running" /\ futures[k].state # "Running"
                   => futures[k].state = "Pending" /\ futures[k].cmd = NoCmd

\* C21: the chunks in flight write pairwise different output files: the parts of
\* a file are numbered 1, 2, ... and named apart, each chunk is queued and
\* started once and never again, and a file is taken up only when no chunk of
\* the file before is in flight.
C21_InFlightOutputsDistinct ==
    /\ [](DistinctOutputs /\ SubmittedOnce)
    /\ [][ /\ futures' # <<>> => NoRetry
           /\ video_file' # video_file => InFlight = {} ]_vars

C21_Witness ==
    /\ file = 2
    /\ Cardinality(Running) = 2
    /\ Len(futures) >= 3
    /\ \A j, k \in Running : j # k => futures[j].output_path # futures[k].output_path

====
